---- MODULE Spec2Model ----
(***************************************************************************)
(* State-machine model of the ember-intl service                           *)
(* (addon/services/intl.js): the active-locale setter with its deferred    *)
(* 'localeChanged' notification, the translation store, the locale         *)
(* fallback resolver, and the memoized formatting-engine cache.            *)
(*                                                                         *)
(* JavaScript values are tagged records: [t |-> "undefined"],              *)
(* [t |-> "str", v |-> s], [t |-> "arr", v |-> seq], [t |-> "obj", ...],   *)
(* [t |-> "bool", ...], [t |-> "num", ...], [t |-> "throw", ...].          *)
(* A locale identifier is a sequence of characters, so that                *)
(* normalisation is computed character by character; it is tagged "str".   *)
(* Translation keys and message patterns are strings, tagged "text".       *)
(***************************************************************************)
EXTENDS Integers, Sequences, FiniteSets, TLC

VARIABLES
  phase,         \* "created" (before init), "live", "destroyed"
  _locale,       \* the active-locale list: Null before init, then a sequence
  _timer,        \* handle returned by the last next(): 0 (null) or a timer id
  timers,        \* run loop: timers[id] \in {"pending", "fired", "cancelled"}
  docLang,       \* the lang attribute of the document element
  burst,         \* setter calls made in the current run-loop turn
  prevBurst,     \* the same record for the last completed turn
  effects,       \* what the timers of the last completed turn did, in order
  notified,      \* the list seen by the last notification: Null before the first
  _messagesMap,  \* translation store: normalized locale -> flat key -> pattern
  localesCache,  \* cached value of the computed property `locales`, if any
  formats,       \* the format-config object of the service
  memo,          \* fast-memoize cache of createIntl: key -> engine handle
  built,         \* how often the engine constructor ran, per key
  ret            \* the last public call: its name, arguments and outcome

vars == <<phase, _locale, _timer, timers, docLang, burst, prevBurst,
          effects, notified, _messagesMap, localesCache, formats, memo, built, ret>>

localeVars == <<_locale, _timer, timers, docLang, burst, prevBurst, effects,
                notified>>
storeVars == <<_messagesMap, localesCache>>
engineVars == <<memo, built>>

-----------------------------------------------------------------------------
(* Bounds *)

MaxTimers == 3      \* timers scheduled in one behaviour
MaxCalls == 2       \* setter calls counted in one run-loop turn
MaxBuilds == 3      \* engine constructions in one behaviour

-----------------------------------------------------------------------------
(* JavaScript values *)

Undefined == [t |-> "undefined"]
Null == [t |-> "null"]
Str(s) == [t |-> "str", v |-> s]      \* a locale string, s a sequence of characters
Text(s) == [t |-> "text", v |-> s]    \* any other string: a key or a message pattern
Arr(a) == [t |-> "arr", v |-> a]
Obj(m) == [t |-> "obj", v |-> m]
Bool(b) == [t |-> "bool", v |-> b]
Throw(e) == [t |-> "throw", v |-> e]
Num(n) == [t |-> "num", v |-> n]

\* JavaScript truthiness of the values the model passes around
Truthy(x) ==
  CASE x.t = "undefined" -> FALSE
    [] x.t = "null" -> FALSE
    [] x.t = "str" -> x.v # <<>>
    [] x.t = "text" -> x.v # ""
    [] x.t = "bool" -> x.v
    [] OTHER -> TRUE

\* property read obj[k] on a plain object modelled as a function
Get(obj, k) == IF k \in DOMAIN obj THEN obj[k] ELSE Undefined

-----------------------------------------------------------------------------
(* Locale identifiers *)

en_us == <<"e", "n", "-", "u", "s">>
en_US == <<"e", "n", "_", "U", "S">>
fr == <<"f", "r">>
FR == <<"F", "R">>

RawLocales == {en_US, fr, FR}

\* -private/utils/normalize-locale: lower case, '-' as the separator
normalizeChar(c) ==
  CASE c = "_" -> "-"
    [] c = "E" -> "e"
    [] c = "N" -> "n"
    [] c = "U" -> "u"
    [] c = "S" -> "s"
    [] c = "F" -> "f"
    [] c = "R" -> "r"
    [] OTHER -> c

normalizeLocale(localeName) ==
  [i \in DOMAIN localeName |-> normalizeChar(localeName[i])]

Locales == {normalizeLocale(l) : l \in RawLocales}

\* what callers pass where a locale is expected: a string or an array
LocaleLists ==
  {<<>>, <<en_US>>, <<fr>>, <<FR>>, <<en_US, fr>>, <<FR, en_US>>}

LocaleArgs == {Str(en_US), Str(FR)} \cup {Arr(a) : a \in LocaleLists}

\* @ember/array makeArray: null and undefined give [], an array is itself,
\* anything else is wrapped
makeArray(x) ==
  CASE x.t \in {"undefined", "null"} -> <<>>
    [] x.t = "arr" -> x.v
    [] OTHER -> <<x.v>>

MapSeq(F(_), s) == [i \in DOMAIN s |-> F(s[i])]

\* -private/utils/is-array-equal: both are sequences and agree element-wise
isArrayEqual(a, b) ==
  /\ a.t = "arr"
  /\ b.t = "arr"
  /\ Len(a.v) = Len(b.v)
  /\ \A i \in 1..Len(a.v) : a.v[i] = b.v[i]

-----------------------------------------------------------------------------
(* The run loop: next() and cancel() *)

Pending == {id \in DOMAIN timers : timers[id] = "pending"}

\* cancel(timer): a pending timer is removed from the queue; null, a fired
\* or an already cancelled handle is ignored
cancel(ts, id) ==
  IF id \in DOMAIN ts /\ ts[id] = "pending"
  THEN [ts EXCEPT ![id] = "cancelled"]
  ELSE ts

\* next(callback): a new pending timer, whose id is the handle
next(ts) == Append(ts, "pending")

-----------------------------------------------------------------------------
(* The active-locale setter *)

\* the state the computed setter `locale` leaves behind (lines 38-51)
localeSetNoCancel(localeName) ==
  LET proposed == Arr(MapSeq(normalizeLocale, makeArray(localeName)))
      changed == ~isArrayEqual(proposed, _locale)
  IN  [changed |-> changed,
       locale |-> IF changed THEN proposed ELSE _locale,
       timers |-> IF changed THEN next(timers) ELSE timers,
       timer |-> IF changed THEN Len(timers) + 1 ELSE _timer]

localeSetAlways(localeName) ==
  LET proposed == Arr(MapSeq(normalizeLocale, makeArray(localeName)))
  IN  [changed |-> TRUE,
       locale |-> proposed,
       timers |-> next(cancel(timers, _timer)),
       timer |-> Len(timers) + 1]

localeSetDeferred(localeName) ==
  LET proposed == Arr(MapSeq(normalizeLocale, makeArray(localeName)))
      changed == ~isArrayEqual(proposed, _locale)
  IN  [changed |-> changed,
       locale |-> _locale,
       timers |-> IF changed THEN next(cancel(timers, _timer)) ELSE timers,
       timer |-> IF changed THEN Len(timers) + 1 ELSE _timer]

localeSetCancelsNew(localeName) ==
  LET proposed == Arr(MapSeq(normalizeLocale, makeArray(localeName)))
      changed == ~isArrayEqual(proposed, _locale)
  IN  [changed |-> changed,
       locale |-> IF changed THEN proposed ELSE _locale,
       timers |-> IF changed THEN cancel(next(timers), Len(timers) + 1) ELSE timers,
       timer |-> IF changed THEN Len(timers) + 1 ELSE _timer]

localeSet(localeName) ==
  LET proposed == Arr(MapSeq(normalizeLocale, makeArray(localeName)))
      changed == ~isArrayEqual(proposed, _locale)
  IN  [changed |-> changed,
       locale |-> IF changed THEN proposed ELSE _locale,
       timers |-> IF changed THEN next(cancel(timers, _timer)) ELSE timers,
       timer |-> IF changed THEN Len(timers) + 1 ELSE _timer]

\* the setter as a step: its effect on the locale state and the burst count
ApplyLocaleSet(localeName, calls) ==
  LET r == localeSet(localeName)
  IN  /\ Len(r.timers) <= MaxTimers
      /\ burst.calls + calls <= MaxCalls
      /\ _locale' = r.locale
      /\ timers' = r.timers
      /\ _timer' = r.timer
      /\ burst' = [calls |-> burst.calls + calls,
                   changed |-> burst.changed + (IF r.changed THEN 1 ELSE 0)]
      /\ UNCHANGED <<docLang, prevBurst, effects, notified>>

\* the `locale` getter (lines 52-54) and primaryLocale (line 63)
locale == _locale
primaryLocale == IF _locale.t = "arr" /\ _locale.v # <<>> THEN Str(_locale.v[1]) ELSE Undefined

-----------------------------------------------------------------------------
(* The translation store *)

\* nested payloads: a leaf is a string, an inner node an object
P_empty == <<>>
P_hi == ("g" :> Text("Hi"))
P_blank == ("g" :> Text(""))
P_nested == ("g" :> Text("Salut") @@ "a" :> Obj("b" :> Text("x")))
P_only_nested == ("a" :> Obj("b" :> Text("y")))
P_malformed == ("g" :> Text("{"))     \* a pattern the engine cannot parse

Payloads == {P_empty, P_hi, P_blank, P_nested, P_only_nested}

Keys == {"g", "a.b", "a"}

\* -private/utils/flatten: dot-joined paths of the leaves
RECURSIVE flattenPairs(_, _)
flattenPairs(prefix, node) ==
  UNION {IF node[k].t = "text"
         THEN {<<prefix \o k, node[k].v>>}
         ELSE flattenPairs(prefix \o k \o ".", node[k].v) : k \in DOMAIN node}

flatten(payload) ==
  LET ps == flattenPairs("", payload)
  IN  [k \in {p[1] : p \in ps} |-> (CHOOSE p \in ps : p[1] = k)[2]]

\* this._messagesMap[locale] for a string locale
messagesOf(map, l) == IF l \in DOMAIN map THEN Obj(map[l]) ELSE Undefined

\* messages[key] on (this._messagesMap[locale] || {})
translationOf(map, l, key) ==
  IF l \in DOMAIN map /\ key \in DOMAIN map[l] THEN Text(map[l][key]) ELSE Undefined

\* _localeWithDefault (lines 221-233)
_localeWithDefault(localeName) ==
  CASE ~Truthy(localeName) -> (IF Truthy(_locale) THEN _locale ELSE Arr(<<>>))
    [] localeName.t = "str" -> Arr(MapSeq(normalizeLocale, makeArray(localeName)))
    [] localeName.t = "arr" -> Arr(MapSeq(normalizeLocale, localeName.v))
    [] OTHER -> Undefined

\* lookup (lines 149-160): the value returned, or the TypeError of reading
\* .length of undefined
RECURSIVE lookupFrom(_, _, _)
lookupFrom(key, localeNames, i) ==
  IF i > Len(localeNames) THEN Undefined
  ELSE LET translation == translationOf(_messagesMap, localeNames[i], key)
       IN  IF translation # Undefined THEN translation
           ELSE lookupFrom(key, localeNames, i + 1)

lookupTruthy(key, localeName) ==
  LET localeNames == _localeWithDefault(localeName)
  IN  IF localeNames.t # "arr" THEN Throw("TypeError")
      ELSE IF \E i \in 1..Len(localeNames.v) :
                Truthy(translationOf(_messagesMap, localeNames.v[i], key))
           THEN LET i == CHOOSE j \in 1..Len(localeNames.v) :
                           /\ Truthy(translationOf(_messagesMap, localeNames.v[j], key))
                           /\ \A h \in 1..(j - 1) :
                                ~Truthy(translationOf(_messagesMap, localeNames.v[h], key))
                IN  translationOf(_messagesMap, localeNames.v[i], key)
           ELSE Undefined

lookupValue(key, localeName) ==
  LET localeNames == _localeWithDefault(localeName)
  IN  IF localeNames.t # "arr" THEN Throw("TypeError")
      ELSE lookupFrom(key, localeNames.v, 1)

\* exists (lines 184-190)
existsNoAssert(key, localeName) ==
  LET localeNames == _localeWithDefault(localeName)
  IN  IF localeNames.t # "arr" THEN Throw("TypeError")
      ELSE Bool(\E i \in 1..Len(localeNames.v) :
                  Truthy(translationOf(_messagesMap, localeNames.v[i], key)))

existsDefined(key, localeName) ==
  LET localeNames == _localeWithDefault(localeName)
  IN  IF ~(localeNames.t = "arr" /\ Len(localeNames.v) # 0)
      THEN Throw("AssertionError")
      ELSE Bool(\E i \in 1..Len(localeNames.v) :
                  translationOf(_messagesMap, localeNames.v[i], key) # Undefined)

existsValue(key, localeName) ==
  LET localeNames == _localeWithDefault(localeName)
  IN  IF ~(localeNames.t = "arr" /\ Len(localeNames.v) # 0)
      THEN Throw("AssertionError")
      ELSE Bool(\E i \in 1..Len(localeNames.v) :
                  Truthy(translationOf(_messagesMap, localeNames.v[i], key)))

-----------------------------------------------------------------------------
(* The engine cache and the formatters *)

FormatConfigs == {<<>>, ("time" :> "hhmm")}

FormatterNames == {"message", "date", "time", "number", "relative"}

\* fast-memoize keys createIntl by the serialized argument list
serialize(loc, fmts) == <<loc, fmts>>

\* onIntlError (lines 137-141): Undefined when it returns, Throw when it throws
onIntlErrorSwallowAll(err) == Undefined

onIntlError(err) ==
  IF err.code # "MISSING_TRANSLATION" THEN Throw(err.code) ELSE Undefined

\* the engine constructed at lines 116-126
newIntl(loc, fmts) ==
  [t |-> "intl",
   id |-> Len(built) + 1,
   locale |-> loc,
   formats |-> fmts,
   messages |-> IF loc.t = "str" THEN messagesOf(_messagesMap, loc.v) ELSE Undefined]

\* this.createIntl, the memoized factory (lines 115-127): the handle returned
\* and the cache it leaves
createIntlNoMemo(loc, fmts) ==
  LET key == serialize(loc, fmts)
      intl == newIntl(loc, fmts)
  IN  [intl |-> intl,
       memo |-> (key :> intl) @@ memo,
       built |-> Append(built, key)]

\* the engine constructor reports a locale that is not a string to onError
\* as an invalid configuration; when onError throws nothing is cached
createIntl(loc, fmts) ==
  LET key == serialize(loc, fmts)
      intl == newIntl(loc, fmts)
      reported == IF loc.t # "str"
                  THEN onIntlError([code |-> "INVALID_CONFIG"])
                  ELSE Undefined
  IN  IF key \in DOMAIN memo
      THEN [intl |-> memo[key], memo |-> memo, built |-> built]
      ELSE IF reported.t = "throw"
           THEN [intl |-> reported, memo |-> memo, built |-> built]
           ELSE [intl |-> intl,
                 memo |-> (key :> intl) @@ memo,
                 built |-> Append(built, key)]

\* getIntl (lines 165-167)
getIntl(loc) ==
  createIntl(IF loc.t = "arr"
             THEN (IF loc.v # <<>> THEN Str(loc.v[1]) ELSE Undefined)
             ELSE loc,
             formats)

\* the error the external engine reports to onError while formatting: a
\* missing id or a pattern it cannot parse for a message, "none" otherwise
engineReports(name, intl, value) ==
  IF name # "message" THEN "none"
  ELSE IF ~(intl.messages.t = "obj" /\ value \in DOMAIN intl.messages.v)
       THEN "MISSING_TRANSLATION"
       ELSE IF intl.messages.v[value] = "{" THEN "FORMAT_ERROR" ELSE "none"

\* the external engine: formatMessage reports a missing id to onError and
\* falls back to the id, reports a malformed pattern and falls back to its
\* text; the other kinds render the value for their locale
engineFormat(name, intl, value) ==
  LET code == engineReports(name, intl, value)
      reported == IF code = "none" THEN Undefined ELSE onIntlError([code |-> code])
  IN  IF reported.t = "throw" THEN reported
      ELSE IF name = "message"
           THEN (IF code = "MISSING_TRANSLATION"
                 THEN Text(value)
                 ELSE Text(intl.messages.v[value]))
           ELSE [t |-> "formatted", kind |-> name, locale |-> intl.locale]

\* -private/formatters: format(locale, value, options)
formatterFormat(name, loc, value) ==
  IF loc.t = "arr" /\ loc.v = <<>>
  THEN [val |-> Throw("NoLocaleConfigured"), intl |-> Undefined,
        reported |-> "none", memo |-> memo, built |-> built]
  ELSE LET r == getIntl(loc)
       IN  IF r.intl.t # "intl"
           THEN [val |-> r.intl, intl |-> Undefined,
                 reported |-> "INVALID_CONFIG", memo |-> r.memo, built |-> r.built]
           ELSE [val |-> engineFormat(name, r.intl, value), intl |-> r.intl,
                 reported |-> IF Len(r.built) > Len(built) /\ r.intl.locale.t # "str"
                              THEN "INVALID_CONFIG"
                              ELSE engineReports(name, r.intl, value),
                 memo |-> r.memo, built |-> r.built]

-----------------------------------------------------------------------------
(* Actions *)

Init ==
  /\ phase = "created"
  /\ _locale = Null
  /\ _timer = 0
  /\ timers = <<>>
  /\ docLang = Undefined
  /\ burst = [calls |-> 0, changed |-> 0]
  /\ prevBurst = [calls |-> 0, changed |-> 0, fired |-> 0,
                  final |-> Null, destroyed |-> FALSE, previous |-> Null]
  /\ effects = <<>>
  /\ notified = Null
  /\ _messagesMap = <<>>
  /\ localesCache = Undefined
  /\ formats = Null
  /\ memo = <<>>
  /\ built = <<>>
  /\ ret = [op |-> "create"]

\* init (lines 100-130): a locale passed to create() has gone through the
\* setter already, and setLocale then repeats it; without one the default
\* ['en-us'] is set
init(supplied, fmts) ==
  /\ phase = "created"
  /\ phase' = "live"
  /\ ApplyLocaleSet(IF Truthy(supplied) THEN supplied ELSE Arr(<<en_us>>),
                    IF Truthy(supplied) THEN 2 ELSE 1)
  /\ formats' = fmts
  /\ ret' = [op |-> "init", args |-> <<supplied, fmts>>]
  /\ UNCHANGED <<storeVars, engineVars>>

\* setLocale (lines 193-200)
setLocale(localeName) ==
  /\ phase = "live"
  /\ IF Truthy(localeName)
     THEN /\ ApplyLocaleSet(localeName, 1)
          /\ ret' = [op |-> "setLocale", args |-> <<localeName>>, val |-> Undefined,
                     changed |-> localeSet(localeName).changed]
     ELSE /\ ret' = [op |-> "setLocale", args |-> <<localeName>>,
                     val |-> Throw("AssertionError"), changed |-> FALSE]
          /\ UNCHANGED localeVars
  /\ UNCHANGED <<phase, storeVars, formats, engineVars>>

\* reading `locale` and `primaryLocale`
getLocale ==
  /\ phase = "live"
  /\ ret' = [op |-> "locale", args |-> <<>>, val |-> locale, primary |-> primaryLocale]
  /\ UNCHANGED <<phase, localeVars, storeVars, formats, engineVars>>

\* _updateDocumentLanguage (lines 236-244) as run by a timer
_updateDocumentLanguage(id, locales, dom) ==
  IF dom
  THEN <<[e |-> "setAttribute", timer |-> id,
          lang |-> IF locales.v # <<>> THEN Str(locales.v[1]) ELSE Undefined]>>
  ELSE <<>>

\* the callback given to next() (lines 44-47)
timerCallbackSinkFirst(id, dom) ==
  _updateDocumentLanguage(id, _locale, dom)
    \o <<[e |-> "localeChanged", timer |-> id, seen |-> _locale]>>

timerCallback(id, dom) ==
  <<[e |-> "localeChanged", timer |-> id, seen |-> _locale]>>
    \o _updateDocumentLanguage(id, _locale, dom)

RECURSIVE runTimers(_, _)
runTimers(ids, dom) ==
  IF ids = {} THEN <<>>
  ELSE LET id == CHOOSE i \in ids : \A j \in ids : i <= j
       IN  timerCallback(id, dom) \o runTimers(ids \ {id}, dom)

\* the run loop moves to its next turn: every pending timer fires; dom tells
\* whether getDOM(this) finds a document
Turn(dom) ==
  /\ phase \in {"live", "destroyed"}
  /\ effects' = runTimers(Pending, dom)
  /\ timers' = [id \in DOMAIN timers |->
                  IF timers[id] = "pending" THEN "fired" ELSE timers[id]]
  /\ docLang' = IF dom /\ Pending # {}
                THEN (IF _locale.v # <<>> THEN Str(_locale.v[1]) ELSE Undefined)
                ELSE docLang
  /\ prevBurst' = [calls |-> burst.calls, changed |-> burst.changed,
                   fired |-> Cardinality(Pending), final |-> _locale,
                   destroyed |-> phase = "destroyed", previous |-> notified]
  /\ notified' = IF Pending # {} THEN _locale ELSE notified
  /\ burst' = [calls |-> 0, changed |-> 0]
  /\ ret' = [op |-> "turn", dom |-> dom]
  /\ UNCHANGED <<phase, _locale, _timer, storeVars, formats, engineVars>>

\* willDestroy (lines 132-135)
willDestroyNoCancel ==
  /\ phase = "live"
  /\ phase' = "destroyed"
  /\ ret' = [op |-> "willDestroy"]
  /\ UNCHANGED <<_locale, _timer, timers, docLang, burst, prevBurst,
                 effects, notified, storeVars, formats, engineVars>>

willDestroy ==
  /\ phase = "live"
  /\ phase' = "destroyed"
  /\ timers' = cancel(timers, _timer)
  /\ ret' = [op |-> "willDestroy"]
  /\ UNCHANGED <<_locale, _timer, docLang, burst, prevBurst, effects,
                 notified, storeVars, formats, engineVars>>

\* addTranslations (lines 207-209)
addTranslationsMerge(localeName, payload) ==
  /\ phase = "live"
  /\ LET l == normalizeLocale(localeName)
     IN  _messagesMap' =
           (l :> (flatten(payload) @@ (IF l \in DOMAIN _messagesMap
                                       THEN _messagesMap[l] ELSE <<>>)))
             @@ _messagesMap
  /\ ret' = [op |-> "addTranslations", args |-> <<localeName, payload>>]
  /\ UNCHANGED <<phase, localeVars, localesCache, formats, engineVars>>

addTranslations(localeName, payload) ==
  /\ phase = "live"
  /\ _messagesMap' = (normalizeLocale(localeName) :> flatten(payload)) @@ _messagesMap
  /\ ret' = [op |-> "addTranslations", args |-> <<localeName, payload>>]
  /\ UNCHANGED <<phase, localeVars, localesCache, formats, engineVars>>

\* addTranslations (lines 207-209) called on another instance of the service:
\* _messagesMap is an object literal in the properties given to
\* Service.extend (line 84) and init (lines 100-130) gives the instance no
\* object of its own, so this._messagesMap is the same object on every
\* instance and the other instance's write lands in it
peerAddTranslations(localeName, payload) ==
  /\ _messagesMap' = (normalizeLocale(localeName) :> flatten(payload)) @@ _messagesMap
  /\ ret' = [op |-> "peer.addTranslations", args |-> <<localeName, payload>>]
  /\ UNCHANGED <<phase, localeVars, localesCache, formats, engineVars>>

\* Object.keys, as the set of the keys
ObjectKeys(obj) == [t |-> "keys", v |-> DOMAIN obj]

\* reading `locales` (lines 32-34): a computed property on the key
\* '_messagesMap'; its function runs on the first read and its value is kept
\* until that key is set, which the service never does
getLocales ==
  /\ phase = "live"
  /\ LET value == IF localesCache = Undefined
                  THEN ObjectKeys(_messagesMap)
                  ELSE localesCache
     IN  /\ localesCache' = value
         /\ ret' = [op |-> "locales", args |-> <<>>, val |-> value]
  /\ UNCHANGED <<phase, localeVars, _messagesMap, formats, engineVars>>

\* translationsFor (lines 216-218)
translationsFor(localeName) ==
  /\ phase = "live"
  /\ ret' = [op |-> "translationsFor", args |-> <<localeName>>,
             val |-> messagesOf(_messagesMap, normalizeLocale(localeName))]
  /\ UNCHANGED <<phase, localeVars, storeVars, formats, engineVars>>

\* lookup (lines 149-160)
lookup(key, localeName) ==
  /\ phase = "live"
  /\ ret' = [op |-> "lookup", args |-> <<key, localeName>>,
             used |-> _localeWithDefault(localeName),
             val |-> lookupValue(key, localeName)]
  /\ UNCHANGED <<phase, localeVars, storeVars, formats, engineVars>>

\* exists (lines 184-190)
exists(key, localeName) ==
  /\ phase = "live"
  /\ ret' = [op |-> "exists", args |-> <<key, localeName>>,
             used |-> _localeWithDefault(localeName),
             val |-> existsValue(key, localeName)]
  /\ UNCHANGED <<phase, localeVars, storeVars, formats, engineVars>>

\* serviceFormatterProxy (lines 262-274); optLocale is formatOptions.locale,
\* Undefined when no options or no locale are given
createFormatterProxyIgnoresEmpty(name, value, optLocale) ==
  /\ phase = "live"
  /\ LET loc == IF Truthy(optLocale) /\ ~(optLocale.t = "arr" /\ optLocale.v = <<>>)
                THEN _localeWithDefault(optLocale)
                ELSE locale
         r == formatterFormat(name, loc, value)
     IN  /\ Len(r.built) <= MaxBuilds
         /\ memo' = r.memo
         /\ built' = r.built
         /\ ret' = [op |-> name, args |-> <<value, optLocale>>, used |-> loc,
                    val |-> r.val, intl |-> r.intl, reported |-> r.reported]
  /\ UNCHANGED <<phase, localeVars, storeVars, formats>>

createFormatterProxySetsLocale(name, value, optLocale) ==
  /\ phase = "live"
  /\ LET loc == IF Truthy(optLocale) THEN _localeWithDefault(optLocale) ELSE locale
         r == formatterFormat(name, loc, value)
     IN  /\ Len(r.built) <= MaxBuilds
         /\ memo' = r.memo
         /\ built' = r.built
         /\ _locale' = loc
         /\ ret' = [op |-> name, args |-> <<value, optLocale>>, used |-> loc,
                    val |-> r.val, intl |-> r.intl, reported |-> r.reported]
  /\ UNCHANGED <<phase, _timer, timers, docLang, burst, prevBurst, effects,
                 notified, storeVars, formats>>

createFormatterProxy(name, value, optLocale) ==
  /\ phase = "live"
  /\ LET loc == IF Truthy(optLocale) THEN _localeWithDefault(optLocale) ELSE locale
         r == formatterFormat(name, loc, value)
     IN  /\ Len(r.built) <= MaxBuilds
         /\ memo' = r.memo
         /\ built' = r.built
         /\ ret' = [op |-> name, args |-> <<value, optLocale>>, used |-> loc,
                    val |-> r.val, intl |-> r.intl, reported |-> r.reported]
  /\ UNCHANGED <<phase, localeVars, storeVars, formats>>

formatMessage(value, optLocale) == createFormatterProxy("message", value, optLocale)
formatDate(value, optLocale) == createFormatterProxy("date", value, optLocale)
formatTime(value, optLocale) == createFormatterProxy("time", value, optLocale)
formatNumber(value, optLocale) == createFormatterProxy("number", value, optLocale)
formatRelative(value, optLocale) == createFormatterProxy("relative", value, optLocale)

\* t (lines 179-181)
t(key, optLocale) == formatMessage(key, optLocale)

-----------------------------------------------------------------------------
(* Specifications *)

QueryLocales == {Undefined} \cup LocaleArgs

\* the inputs of the formatting calls
FormatLocales == {Undefined, Str(FR), Arr(<<en_US, fr>>), Arr(<<>>)}
FormatKeys == {"g", "a"}
FormatPayloads == {P_empty, P_hi}

InitStep(configs) ==
  \E supplied \in QueryLocales, fmts \in configs : init(supplied, fmts)

SetterStep == \E localeName \in QueryLocales : setLocale(localeName)

LocaleStep ==
  \/ InitStep({<<>>})
  \/ SetterStep
  \/ getLocale
  \/ \E dom \in BOOLEAN : Turn(dom)
  \/ willDestroy

\* reads of `locales` between translation additions
LocalesStep ==
  \/ InitStep({<<>>})
  \/ \E l \in RawLocales, p \in {P_empty, P_hi} : addTranslations(l, p)
  \/ \E l \in RawLocales : translationsFor(l)
  \/ getLocales

\* the store read on this instance while another instance adds translations
PeerStep ==
  \/ InitStep({<<>>})
  \/ \E l \in {FR}, p \in {P_empty, P_hi} : addTranslations(l, p)
  \/ \E l \in {FR}, p \in {P_empty, P_hi} : peerAddTranslations(l, p)
  \/ \E l \in RawLocales : translationsFor(l)
  \/ \E k \in {"g"}, l \in {Undefined, Str(FR)} : lookup(k, l)
  \/ \E k \in {"g"}, l \in {Undefined, Str(FR)} : exists(k, l)
  \/ getLocales

SpecPeer == Init /\ [][PeerStep]_vars

StoreStep ==
  \/ InitStep({<<>>})
  \/ \E l \in RawLocales, p \in Payloads : addTranslations(l, p)
  \/ \E l \in RawLocales : translationsFor(l)
  \/ \E k \in Keys, l \in QueryLocales : lookup(k, l)
  \/ \E k \in Keys, l \in QueryLocales : exists(k, l)

FormatStep ==
  \/ InitStep(FormatConfigs)
  \/ \E localeName \in FormatLocales : setLocale(localeName)
  \/ \E l \in {en_US, FR}, p \in FormatPayloads : addTranslations(l, p)
  \/ \E k \in FormatKeys, l \in FormatLocales : formatMessage(k, l)
  \/ \E k \in FormatKeys : t(k, Undefined)
  \/ formatDate(0, Str(FR))
  \/ formatTime(0, Str(FR))
  \/ \E l \in {Undefined, Str(FR)} : formatNumber(0, l)
  \/ formatRelative(0, Str(FR))

Next == LocaleStep \/ StoreStep \/ FormatStep \/ getLocales

Spec == Init /\ [][Next]_vars

\* the active-locale controller alone
SpecLocale == Init /\ [][LocaleStep]_vars

\* the translation store under a fixed active-locale list
SpecStore == Init /\ [][StoreStep]_vars

\* formatting calls, locale changes and translation additions
SpecFormat == Init /\ [][FormatStep]_vars

\* calls that read the active-locale list, between setter calls and turns
ObserveStep ==
  \/ InitStep({<<>>})
  \/ \E localeName \in {Str(FR), Arr(<<en_US, fr>>), Arr(<<>>)} : setLocale(localeName)
  \/ Turn(TRUE)
  \/ getLocale
  \/ addTranslations(FR, P_hi)
  \/ lookup("g", Undefined)
  \/ exists("g", Undefined)
  \/ formatMessage("g", Undefined)
  \/ formatNumber(0, Undefined)

SpecObserve == Init /\ [][ObserveStep]_vars

\* locale arguments of every shape, the unsupported ones included
ShapeArgs == {Undefined, Str(FR), Arr(<<en_US>>), Num(42), Obj(<<>>)}

ShapeStep ==
  \/ InitStep({<<>>})
  \/ \E p \in {P_hi, P_blank} : addTranslations(FR, p)
  \/ \E k \in Keys, l \in ShapeArgs : lookup(k, l)
  \/ \E k \in Keys, l \in ShapeArgs : exists(k, l)
  \/ \E l \in ShapeArgs : formatMessage("g", l)
  \/ \E l \in ShapeArgs : formatDate(0, l)

SpecShape == Init /\ [][ShapeStep]_vars

SpecLocales == Init /\ [][LocalesStep]_vars

\* every operation other than the setter, around setter calls and turns
FrameStep ==
  \/ InitStep({<<>>})
  \/ \E localeName \in {Str(FR), Arr(<<en_US>>)} : setLocale(localeName)
  \/ Turn(TRUE)
  \/ addTranslations(FR, P_hi)
  \/ translationsFor(FR)
  \/ lookup("g", Str(FR))
  \/ exists("g", Str(FR))
  \/ \E l \in {Undefined, Str(FR)} : formatMessage("g", l)
  \/ t("g", Str(FR))
  \/ formatDate(0, Str(FR))
  \/ formatTime(0, Str(FR))
  \/ formatNumber(0, Str(FR))
  \/ formatRelative(0, Str(FR))

SpecFrame == Init /\ [][FrameStep]_vars

\* formatting calls on which the engine reports errors of several kinds
ErrorStep ==
  \/ InitStep({<<>>})
  \/ \E p \in {P_hi, P_malformed} : addTranslations(FR, p)
  \/ \E k \in FormatKeys, l \in {Undefined, Str(FR), Num(42)} : formatMessage(k, l)
  \/ \E l \in {Undefined, Num(42)} : formatNumber(0, l)

SpecError == Init /\ [][ErrorStep]_vars

-----------------------------------------------------------------------------
(* Properties of the active-locale setter and its notification *)

\* the list a setter argument stands for
Normalized(localeName) == Arr(MapSeq(normalizeLocale, makeArray(localeName)))

\* C1: a setter call whose normalized argument equals the active-locale list
\* element by element changes nothing: the stored list, the timer handle and
\* the run-loop queue (so also a pending notification) stay as they are
C1_SetterEqualIsNoOp ==
  [][(/\ ret'.op = "setLocale"
      /\ ret'.val = Undefined
      /\ Normalized(ret'.args[1]) = _locale)
     => /\ _locale' = _locale
        /\ _timer' = _timer
        /\ timers' = timers
        /\ docLang' = docLang]_vars

\* a no-op call with a differently written argument, made while a
\* notification is pending
C1_Witness ==
  /\ ret.op = "setLocale"
  /\ ret.args[1] = Arr(<<FR, en_US>>)
  /\ ~ret.changed
  /\ _locale = Arr(<<fr, en_us>>)
  /\ Pending # {}

\* C2 as stated, for a service that is not destroyed: a turn in which the
\* setter was called twice or more ends with exactly one notification, which
\* sees the final list
C2_ExactlyOnePerBurst ==
  (prevBurst.calls >= 2 /\ ~prevBurst.destroyed) =>
    /\ prevBurst.fired = 1
    /\ \A i \in DOMAIN effects :
         effects[i].e = "localeChanged" => effects[i].seen = prevBurst.final

\* C2 amended: a turn in which the setter was called twice or more ends with
\* at most one notification; it ends with one exactly when a call of the turn
\* changed the list and the service was not destroyed before the turn
\* elapsed, and that notification sees the final list
C2_AtMostOnePerBurst ==
  prevBurst.calls >= 2 =>
    /\ prevBurst.fired <= 1
    /\ prevBurst.fired = 1 <=> (prevBurst.changed >= 1 /\ ~prevBurst.destroyed)
    /\ Len(SelectSeq(effects, LAMBDA x : x.e = "localeChanged")) = prevBurst.fired
    /\ \A i \in DOMAIN effects :
         effects[i].e = "localeChanged" => effects[i].seen = prevBurst.final

\* two changing calls in one turn, one notification, carrying the second list
C2_Witness ==
  /\ ret.op = "turn"
  /\ prevBurst.calls = 2
  /\ prevBurst.changed = 2
  /\ prevBurst.fired = 1
  /\ Len(timers) >= 2
  /\ \E i \in DOMAIN effects :
       effects[i].e = "localeChanged" /\ effects[i].seen = _locale

\* C4: willDestroy leaves no timer pending, and once the service is destroyed
\* no timer fires: no 'localeChanged' is broadcast and the lang attribute is
\* not written
C4_NoNotificationAfterDestroy ==
  [][/\ ret'.op = "willDestroy" => Pending' = {}
     /\ phase = "destroyed" =>
          /\ ret'.op = "turn" => effects' = <<>>
          /\ docLang' = docLang
          /\ \A id \in DOMAIN timers : timers[id] # "fired" => timers'[id] # "fired"]_vars

\* a turn has elapsed after the service was destroyed with a notification
\* pending, and that notification was cancelled
C4_Witness ==
  /\ phase = "destroyed"
  /\ ret.op = "turn"
  /\ prevBurst.changed >= 1
  /\ prevBurst.destroyed
  /\ _timer \in DOMAIN timers
  /\ timers[_timer] = "cancelled"
  /\ effects = <<>>

\* C3: a setter call that is accepted leaves the stored list equal to its
\* normalized argument when it returns, and every later read of `locale` and
\* `primaryLocale`, every lookup and exists without a locale and every
\* formatting call without an override works on the stored list, whether or
\* not the notification has fired
C3_SetterIsSynchronous ==
  [][/\ (ret'.op = "setLocale" /\ ret'.val = Undefined)
          => _locale' = Normalized(ret'.args[1])
     /\ ret'.op = "locale"
          => /\ ret'.val = _locale
             /\ ret'.primary = (IF _locale.v = <<>> THEN Undefined ELSE Str(_locale.v[1]))
     /\ (ret'.op \in {"lookup", "exists"} \cup FormatterNames /\ ret'.args[2] = Undefined)
          => /\ ret'.used = _locale
             /\ (ret'.op \in FormatterNames /\ _locale.v # <<>>)
                  => ret'.intl.locale = Str(_locale.v[1])]_vars

\* a message is formatted for the list of a second change whose notification
\* is still pending
C3_Witness ==
  /\ ret.op = "message"
  /\ ret.args[2] = Undefined
  /\ Len(timers) >= 2
  /\ burst.changed >= 1
  /\ Pending # {}
  /\ ret.used = _locale
  /\ _locale = Arr(<<fr>>)
  /\ ret.intl.locale = Str(fr)

-----------------------------------------------------------------------------
(* Properties of the translation store *)

\* the candidate list a locale argument stands for
Candidates(localeName) ==
  IF localeName = Undefined
  THEN (IF _locale.t = "arr" THEN _locale.v ELSE <<>>)
  ELSE Normalized(localeName).v

HasKey(l, key) == l \in DOMAIN _messagesMap /\ key \in DOMAIN _messagesMap[l]

\* C5: lookup returns the value of the key in the first candidate locale
\* whose map defines it, an empty string included, and undefined when no
\* candidate defines it
C5_LookupFirstDefined ==
  ret.op = "lookup" =>
    LET key == ret.args[1]
        cands == Candidates(ret.args[2])
        hits == {i \in DOMAIN cands : HasKey(cands[i], key)}
    IN  IF hits = {} THEN ret.val = Undefined
        ELSE LET first == CHOOSE i \in hits : \A j \in hits : i <= j
             IN  ret.val = Text(_messagesMap[cands[first]][key])

\* the first candidate was never ingested, the second one has the key
C5_Witness ==
  /\ ret.op = "lookup"
  /\ ret.args = <<"g", Arr(<<en_US, fr>>)>>
  /\ en_us \notin DOMAIN _messagesMap
  /\ HasKey(fr, "g")
  /\ ret.val = Text("Hi")

\* C7: exists fails with the assertion error whenever the candidate list it
\* resolves is empty
C7_ExistsEmptyFails ==
  (ret.op = "exists" /\ Candidates(ret.args[2]) = <<>>)
    => ret.val = Throw("AssertionError")

\* exists without a locale while the active-locale list is empty
C7_Witness ==
  /\ ret.op = "exists"
  /\ ret.args[2] = Undefined
  /\ _locale = Arr(<<>>)
  /\ ret.val = Throw("AssertionError")

\* C8: on a non-empty candidate list exists returns true when some candidate
\* has a non-empty value for the key, and false otherwise
C8_ExistsIffTruthy ==
  (ret.op = "exists" /\ Candidates(ret.args[2]) # <<>>) =>
    LET key == ret.args[1]
        cands == Candidates(ret.args[2])
    IN  ret.val = Bool(\E i \in DOMAIN cands :
                         HasKey(cands[i], key) /\ _messagesMap[cands[i]][key] # "")

\* the only translation is the empty string: exists says false, lookup finds it
C8_Witness ==
  /\ ret.op = "exists"
  /\ ret.val = Bool(FALSE)
  /\ lookupValue(ret.args[1], ret.args[2]) = Text("")

\* C9: addTranslations(L, P) leaves exactly the flattening of P as the map of
\* the normalized L, and the maps of the other locales as they were
C9_AddReplacesWholesale ==
  [][ret'.op = "addTranslations" =>
       LET l == normalizeLocale(ret'.args[1])
       IN  /\ messagesOf(_messagesMap', l) = Obj(flatten(ret'.args[2]))
           /\ \A o \in Locales \ {l} :
                messagesOf(_messagesMap', o) = messagesOf(_messagesMap, o)]_vars

\* a nested payload was added for fr while en-us holds another map
C9_Witness ==
  /\ ret.op = "addTranslations"
  /\ ret.args = <<FR, P_nested>>
  /\ messagesOf(_messagesMap, fr) = Obj(("g" :> "Salut") @@ ("a.b" :> "x"))
  /\ messagesOf(_messagesMap, en_us) = Obj(("g" :> ""))

-----------------------------------------------------------------------------
(* Properties of message formatting and the engine cache *)

\* C6: with the active-locale list [A, B], A without the key and B with it,
\* formatting the key without a per-call locale gives B's message
C6_MessageFallsBack ==
  (/\ ret.op = "message"
   /\ ret.args[2] = Undefined
   /\ _locale.t = "arr"
   /\ Len(_locale.v) = 2
   /\ ~HasKey(_locale.v[1], ret.args[1])
   /\ HasKey(_locale.v[2], ret.args[1]))
    => ret.val = Text(_messagesMap[_locale.v[2]][ret.args[1]])

Occurrences(seq, x) == Cardinality({i \in DOMAIN seq : seq[i] = x})

\* C10: every cached key was constructed once and nothing else was
\* constructed, the handles of different keys differ, a formatting call gets
\* the cached handle of its key, and a cached entry is never replaced
C10_OneEnginePerKey ==
  /\ [](/\ \A key \in DOMAIN memo : Occurrences(built, key) = 1
        /\ \A i \in DOMAIN built : built[i] \in DOMAIN memo
        /\ \A k1, k2 \in DOMAIN memo : k1 # k2 => memo[k1].id # memo[k2].id
        /\ \A key \in DOMAIN memo : key = serialize(memo[key].locale, memo[key].formats)
        /\ (ret.op \in FormatterNames /\ ret.intl # Undefined)
             => ret.intl = memo[serialize(ret.intl.locale, formats)])
  /\ [][\A key \in DOMAIN memo : key \in DOMAIN memo' /\ memo'[key] = memo[key]]_vars

\* the first engine is handed out again after a second one was constructed
C10_Witness ==
  /\ ret.op \in FormatterNames
  /\ Len(built) = 2
  /\ ret.intl # Undefined
  /\ ret.intl.id = 1
  /\ Cardinality(DOMAIN memo) = 2

-----------------------------------------------------------------------------
(* Properties of the locale-fallback resolver and of error handling *)

\* C11: a call that passes a locale which is neither a string nor a sequence
\* fails with an invalid-argument error, and the resolver has not produced
\* undefined as its candidate list
C11_UnsupportedShapeIsInvalidArgument ==
  (/\ ret.op \in {"lookup", "exists"} \cup FormatterNames
   /\ ret.args[2].t \in {"num", "obj"})
    => /\ ret.val = Throw("InvalidArgument")
       /\ ret.used # Undefined

\* the candidate list of a formatting call: the per-call override when one
\* is given, the active-locale list otherwise
FormatCandidates(optLocale) ==
  IF Truthy(optLocale) THEN Normalized(optLocale).v ELSE _locale.v

C13_OnlyMissingTranslationSwallowed ==
  ret.op \in FormatterNames =>
    /\ ret.reported = "MISSING_TRANSLATION" => ret.val.t # "throw"
    /\ ret.reported \notin {"none", "MISSING_TRANSLATION"}
         => ret.val = Throw(ret.reported)

\* a malformed pattern was formatted and the engine's error reached the caller
C13_Witness ==
  /\ ret.op = "message"
  /\ ret.reported = "FORMAT_ERROR"
  /\ ret.val = Throw("FORMAT_ERROR")
  /\ ret.intl.messages = Obj(("g" :> "{"))

-----------------------------------------------------------------------------
(* Further properties of the translation store *)

\* C14: a read of `locales` gives the set of the normalized locales that
\* have an entry in the translation store at that moment
C14_LocalesAreStoreKeys ==
  ret.op = "locales" => ret.val.v = DOMAIN _messagesMap

\* C15: lookup, exists, translationsFor, addTranslations, t and the five
\* formatting operations leave the active-locale list, the timer handle and
\* the run-loop queue as they were; a per-call override only selects the
\* engine of that call
C15_OnlySetterMutatesLocale ==
  [][ret'.op \in {"lookup", "exists", "translationsFor", "addTranslations"}
                   \cup FormatterNames
     => /\ _locale' = _locale
        /\ _timer' = _timer
        /\ timers' = timers
        /\ (/\ ret'.op \in FormatterNames
            /\ Truthy(ret'.args[2])
            /\ Normalized(ret'.args[2]).v # <<>>)
             => ret'.intl.locale = Str(Normalized(ret'.args[2]).v[1])]_vars

\* a message was formatted with the override 'FR' while the active-locale
\* list is ['en-us'] and its notification is pending
C15_Witness ==
  /\ ret.op = "message"
  /\ ret.args[2] = Str(FR)
  /\ ret.intl.locale = Str(fr)
  /\ _locale = Arr(<<en_us>>)
  /\ Pending # {}

-----------------------------------------------------------------------------
(* Further properties of the notification *)

\* C20 as stated: when a notification fires, the active-locale list differs
\* from the list of the previous notification; the first notification of a
\* service has no previous one to differ from
C20_NotifiedListsDiffer ==
  prevBurst.fired >= 1 => prevBurst.final # prevBurst.previous

\* C20 amended: a notification fires at the end of a turn exactly when a
\* setter call of that turn found its argument different from the list
\* stored at the time of the call and the service was not destroyed since;
\* the list it sees may be the list of the previous notification
C20_NotificationFollowsChange ==
  /\ prevBurst.fired >= 1 => prevBurst.changed >= 1
  /\ (prevBurst.changed >= 1 /\ ~prevBurst.destroyed) => prevBurst.fired = 1

\* the list went away from the notified one and back within one turn, and a
\* notification fired for the same list again
C20_Witness ==
  /\ ret.op = "turn"
  /\ prevBurst.changed = 2
  /\ prevBurst.fired = 1
  /\ prevBurst.previous # Null
  /\ prevBurst.final = prevBurst.previous

\* C16: at most one scheduled notification is outstanding, and it is the one
\* the service holds; a setter call that changes the list while one is pending
\* cancels it and schedules a fresh one; a cancelled notification never fires
C16_AtMostOneOutstanding ==
  /\ [](Cardinality(Pending) <= 1 /\ Pending \subseteq {_timer})
  /\ [][/\ \A id \in DOMAIN timers :
             timers[id] = "cancelled" => timers'[id] = "cancelled"
        /\ (ret'.op = "setLocale" /\ ret'.changed /\ Pending # {})
             => /\ \A id \in Pending : timers'[id] = "cancelled"
                /\ _timer' \notin DOMAIN timers
                /\ timers'[_timer'] = "pending"]_vars

\* a turn has passed since a changing setter call cancelled a pending
\* notification: the cancelled one did not fire, its replacement did
C16_Witness ==
  /\ ret.op = "turn"
  /\ \E id \in DOMAIN timers : timers[id] = "cancelled"
  /\ prevBurst.changed = 2
  /\ Len(effects) >= 1
  /\ \A i \in DOMAIN effects : effects[i].timer = _timer

\* C17: a notification that fires broadcasts 'localeChanged' first and then
\* writes the first element of the list, as it stands when the notification
\* fires, to the lang attribute of the document; without a document only the
\* event is broadcast and the attribute is left alone
C17_EventThenDocumentLanguage ==
  [][(ret'.op = "turn" /\ Pending # {})
       => LET primary == IF _locale.v # <<>> THEN Str(_locale.v[1])
                         ELSE Undefined
          IN  /\ effects'[1].e = "localeChanged"
              /\ effects'[1].seen = _locale
              /\ IF ret'.dom
                 THEN /\ Len(effects') = 2
                      /\ effects'[2].e = "setAttribute"
                      /\ effects'[2].lang = primary
                      /\ docLang' = primary
                 ELSE /\ Len(effects') = 1
                      /\ docLang' = docLang]_vars

\* a notification fired in a document whose lang attribute had been written
\* for another primary locale before
C17_Witness ==
  /\ ret.op = "turn"
  /\ ret.dom
  /\ Len(effects) = 2
  /\ prevBurst.previous # Null
  /\ prevBurst.previous.v # <<>>
  /\ prevBurst.final.v # <<>>
  /\ prevBurst.previous.v[1] # prevBurst.final.v[1]
  /\ docLang = Str(prevBurst.final.v[1])

-----------------------------------------------------------------------------
(* Further properties of the translation store *)

\* C18: once a payload was added for a locale, a message-formatting call
\* whose primary locale is that locale is served by an engine whose messages
\* are the current translation map of the locale
C18_EngineServesCurrentMessages ==
  (/\ ret.op = "message"
   /\ ret.intl.t = "intl"
   /\ ret.intl.locale.t = "str"
   /\ ret.intl.locale.v \in DOMAIN _messagesMap)
    => ret.intl.messages = Obj(_messagesMap[ret.intl.locale.v])

\* what reading `locales` gives in the current state
LocalesValue ==
  IF localesCache = Undefined THEN ObjectKeys(_messagesMap) ELSE localesCache

\* C19: addTranslations on another, independently created instance changes
\* nothing that translationsFor, lookup, exists or `locales` return on this
\* instance
C19_StoreIsPerInstance ==
  [][ret'.op = "peer.addTranslations"
       => /\ \A l \in RawLocales :
               messagesOf(_messagesMap', normalizeLocale(l))
                 = messagesOf(_messagesMap, normalizeLocale(l))
          /\ \A k \in Keys, l \in QueryLocales :
               /\ lookupValue(k, l)' = lookupValue(k, l)
               /\ existsValue(k, l)' = existsValue(k, l)
          /\ LocalesValue' = LocalesValue]_vars

====
